---- MODULE Spec2Model ----
(***************************************************************************)
(* Model of the mshadow expression-template evaluation engine              *)
(* (mshadow/expr_engine-inl.h) and of the expression-template example      *)
(* program (example/exp-template/exp_template_op.cpp).                     *)
(*                                                                         *)
(* Numbers: the buffers hold floats; the model holds small integers, on    *)
(* which float multiplication, addition and comparison are exact.          *)
(***************************************************************************)
EXTENDS Integers, Sequences, FiniteSets, TLC

VARIABLES
  \* ---- example program: struct Vec and the assignment loop
  len,      \* Vec::len, the common length of the three vectors A, B, C
  dptr,     \* Vec::dptr of each vector: name -> (index -> value)
  src,      \* the expression being assigned (operator='s src), or NoExp
  i,        \* the loop variable of Vec::operator=
  pc,       \* position of the program: "idle", "loop" (inside operator=), "done"
  prev,     \* the destination's contents when the running assignment began
  runs,     \* how many assignments have been started
  wlog,     \* the indices of A stored to by the running assignment, in order
  \* ---- engine: element-wise assignment dst = exp over tensors
  ten,      \* the tensors X, Y (operands) and D (destination)
  mexp,     \* the expression assigned to D, or NoExp
  mres,     \* outcome of the assignment: "none", "ok", or the error raised
  mprev,    \* D's buffer before the assignment
  \* ---- engine: dot expressions dst = dot(lhs[.T], rhs[.T])
  lhsT,     \* the left operand tensor
  rhsT,     \* the right operand tensor
  dstT,     \* the destination tensor
  call,     \* the DotEngine call made: engine, transpose flags, scale, SV; or NoCall
  dres,     \* its outcome: "none", "ok", or the error raised
  dprev,    \* the destination buffer before the call
  blas,     \* the BLAS routines called, in order
  \* ---- static type inference
  etype,    \* an expression type E
  kDim,     \* ExpInfo<E>::kDim as instantiated for it
  \* ---- both
  junk      \* the indeterminate value of an uninitialised or out-of-bounds read

vecVars == <<len, dptr, src, i, pc, prev, runs, wlog>>
mapVars == <<ten, mexp, mres, mprev>>
dotVars == <<lhsT, rhsT, dstT, call, dres, dprev, blas>>
infoVars == <<etype, kDim>>

(***************************************************************************)
(* Bounds of the model                                                     *)
(***************************************************************************)
MaxLen == 2      \* vector lengths explored are 0..MaxLen
MaxVal == 2      \* first cell of an operand buffer is in 0..MaxVal
MaxRuns == 2     \* assignments run one after the other
MaxExt == 2      \* extents of a tensor axis explored are 0..MaxExt
MaxDim == 2      \* tensor types have dimension 1..MaxDim
MaxNest == 2     \* expression types are nested at most MaxNest deep

\* const int n = 3 of the example program
n == 3

(***************************************************************************)
(* Example program: expressions                                            *)
(***************************************************************************)
VecNames == {"A", "B", "C"}
Ops == {"mul", "maximum"}
NoExp == [k |-> "none"]

\* a Vec used as an expression (struct Vec : Exp<Vec>)
VecExp(v) == [k |-> "vec", v |-> v]
\* F<OP>(lhs, rhs): the BinaryMapExp node over two expressions
F(op, lhs, rhs) == [k |-> "bin", op |-> op, lhs |-> lhs, rhs |-> rhs]

\* mul::Map and maximum::Map with the two arguments swapped in the comparison
MapSwappedCompare(op, a, b) ==
  IF op = "mul" THEN a * b ELSE IF a < b THEN a ELSE b

\* mul::Map, maximum::Map
Map(op, a, b) ==
  IF op = "mul" THEN a * b ELSE IF a > b THEN a ELSE b

RECURSIVE EvalPrevCell(_, _, _)
\* Vec::Eval reading the cell before the one asked for (dptr[i - 1])
EvalPrevCell(e, d, ix) ==
  IF e.k = "vec" THEN d[e.v][IF ix > 0 THEN ix - 1 ELSE ix]
  ELSE Map(e.op, EvalPrevCell(e.lhs, d, ix), EvalPrevCell(e.rhs, d, ix))

RECURSIVE Eval(_, _, _)
\* Vec::Eval(i) and BinaryMapExp::Eval(i), on the buffers d
Eval(e, d, ix) ==
  IF e.k = "vec" THEN d[e.v][ix]
  ELSE Map(e.op, Eval(e.lhs, d, ix), Eval(e.rhs, d, ix))

RECURSIVE Leaves(_)
\* the vectors an expression refers to
Leaves(e) ==
  IF e.k = "vec" THEN {e.v} ELSE Leaves(e.lhs) \cup Leaves(e.rhs)

\* expressions the model assigns: a vector, one binary node over vectors, and
\* a binary node whose right operand is a binary node (B * F<maximum>(C, B))
LeafExps == {VecExp(v) : v \in VecNames}
BinExps == {F(op, l, r) : op \in Ops, l \in LeafExps, r \in LeafExps}
NestedExps == {F(op, l, F(op2, VecExp("C"), r)) :
                 op \in Ops, op2 \in Ops, l \in LeafExps, r \in LeafExps}
Exps == LeafExps \cup BinExps \cup NestedExps

\* the expression of main: B * F<maximum>(C, B)
MainExp == F("mul", VecExp("B"), F("maximum", VecExp("C"), VecExp("B")))

(***************************************************************************)
(* Example program: state and the assignment A = src                       *)
(***************************************************************************)
\* a buffer of length l whose cells are b, b+s, b+2s, ...
Ramp(l, b, s) == [x \in 0..(l - 1) |-> b + s * x]

\* main: sa = {1,2,3}, sb = {2,3,4}, sc = {3,4,5}, Vec A(sa,n), B(sb,n), C(sc,n)
MainInit ==
  /\ len = n
  /\ dptr = [v \in VecNames |->
               IF v = "A" THEN Ramp(n, 1, 1)
               ELSE IF v = "B" THEN Ramp(n, 2, 1) ELSE Ramp(n, 3, 1)]

\* any three vectors of one length, the operands ramps or constant buffers
AnyVecInit ==
  /\ len \in 0..MaxLen
  /\ \E a \in 0..1, b \in 0..MaxVal, c \in 0..MaxVal, sb \in 0..1, sc \in 0..1 :
       dptr = [v \in VecNames |->
                 IF v = "A" THEN Ramp(len, a, a)
                 ELSE IF v = "B" THEN Ramp(len, b, sb) ELSE Ramp(len, c, sc)]

VecInit ==
  /\ (MainInit \/ AnyVecInit)
  /\ src = NoExp
  /\ i = 0
  /\ pc = "idle"
  /\ prev = dptr["A"]
  /\ runs = 0
  /\ wlog = <<>>

\* A = e : entry of Vec::operator=, src bound, i = 0
Assign(e) ==
  /\ pc = "idle"
  /\ runs < MaxRuns
  /\ src' = e
  /\ i' = 0
  /\ pc' = "loop"
  /\ prev' = dptr["A"]
  /\ runs' = runs + 1
  /\ wlog' = <<>>
  /\ UNCHANGED <<len, dptr>>

\* the statement A = e executed again after it has finished
Reassign ==
  /\ pc = "done"
  /\ runs < MaxRuns
  /\ i' = 0
  /\ pc' = "loop"
  /\ prev' = dptr["A"]
  /\ runs' = runs + 1
  /\ wlog' = <<>>
  /\ UNCHANGED <<len, dptr, src>>

\* the loop body storing into the operand B instead of the destination
LoopBodyStoresToOperand ==
  /\ pc = "loop"
  /\ i < len
  /\ dptr' = [dptr EXCEPT !["B"][i] = Eval(src, dptr, i)]
  /\ i' = i + 1
  /\ wlog' = Append(wlog, i)
  /\ UNCHANGED <<len, src, pc, prev, runs>>

\* the loop body storing one cell further on (the last cell twice)
LoopBodyOffByOne ==
  /\ pc = "loop"
  /\ i < len
  /\ LET w == IF i + 1 < len THEN i + 1 ELSE i IN
       /\ dptr' = [dptr EXCEPT !["A"][w] = Eval(src, dptr, i)]
       /\ wlog' = Append(wlog, w)
  /\ i' = i + 1
  /\ UNCHANGED <<len, src, pc, prev, runs>>

\* the loop body adding to the destination cell instead of storing into it
LoopBodyAccumulate ==
  /\ pc = "loop"
  /\ i < len
  /\ dptr' = [dptr EXCEPT !["A"][i] = @ + Eval(src, dptr, i)]
  /\ i' = i + 1
  /\ wlog' = Append(wlog, i)
  /\ UNCHANGED <<len, src, pc, prev, runs>>

\* one iteration: dptr[i] = src.Eval(i); ++i
LoopBody ==
  /\ pc = "loop"
  /\ i < len
  /\ dptr' = [dptr EXCEPT !["A"][i] = Eval(src, dptr, i)]
  /\ i' = i + 1
  /\ wlog' = Append(wlog, i)
  /\ UNCHANGED <<len, src, pc, prev, runs>>

\* loop exit: i < len is false, return *this
LoopExit ==
  /\ pc = "loop"
  /\ ~(i < len)
  /\ pc' = "done"
  /\ UNCHANGED <<len, dptr, src, i, prev, runs, wlog>>

VecOff ==
  /\ len = 0 /\ dptr = <<>> /\ src = NoExp /\ i = 0
  /\ pc = "off" /\ prev = <<>> /\ runs = 0 /\ wlog = <<>>

(***************************************************************************)
(* Engine: tensors                                                         *)
(* shape[0] is the lowest dimension (the extent of x, the columns) and     *)
(* shape[1] the next one (the extent of y, the rows); cell (y, x) of a     *)
(* matrix is dptr[y * stride + x].                                         *)
(***************************************************************************)
\* Shape1(s0) and Shape2(s1, s0) of tensor.h: s[0] = s0, s[1] = s1
Shape1(s0) == (0 :> s0)
Shape2(s1, s0) == (0 :> s0) @@ (1 :> s1)

\* a matrix of rows x cols cells, pad unused cells after each row, the buffer
\* holding b, b+s, b+2s, ...
Matrix(rows, cols, pad, b, s) ==
  [dim |-> 2, shape |-> Shape2(rows, cols), stride |-> cols + pad,
   dptr |-> [x \in 0..(rows * (cols + pad) - 1) |-> b + s * x]]

\* a vector of l cells holding b, b+s, b+2s, ...
Vector(l, b, s) ==
  [dim |-> 1, shape |-> Shape1(l), stride |-> l,
   dptr |-> [x \in 0..(l - 1) |-> b + s * x]]

\* the e x e identity matrix, pad unused cells after each row holding 0
Identity(e, pad) ==
  [dim |-> 2, shape |-> Shape2(e, e), stride |-> e + pad,
   dptr |-> [x \in 0..(e * (e + pad) - 1) |->
               IF x \div (e + pad) = x % (e + pad) THEN 1 ELSE 0]]

\* the cells of tensor t that belong to it (not padding), as buffer indices
Cells(t) ==
  IF t.dim = 1 THEN 0..(t.shape[0] - 1)
  ELSE {y * t.stride + x : y \in 0..(t.shape[1] - 1), x \in 0..(t.shape[0] - 1)}

(***************************************************************************)
(* Engine: expressions, ShapeCheck and Plan                                *)
(***************************************************************************)
ScalarExp(v) == [k |-> "scalar", scalar |-> v]
TensorExp(t) == [k |-> "tensor", t |-> t]
TransposeExp(e) == [k |-> "transpose", exp |-> e]
BinaryMapExp(op, lhs, rhs) == [k |-> "bin", op |-> op, lhs |-> lhs, rhs |-> rhs]

\* results of a shape check: a shape, or the assertion failure
ShapeOk(s) == [err |-> FALSE, shape |-> s]
ShapeErr == [err |-> TRUE]

\* ShapeCheck<dim,ScalarExp>::Check: shape[0] = 0, shape[1] left unset
ScalarShape == (0 :> 0) @@ (1 :> junk)

\* ShapeCheck<dim,BinaryMapExp>::Check on the operands' results r1, r2
BinaryShape(r1, r2) ==
  IF r1.err THEN r1
  ELSE IF r2.err THEN r2
  ELSE IF r1.shape[0] = 0 THEN r2
  ELSE IF r2.shape[0] = 0 THEN r1
  ELSE IF r1.shape = r2.shape THEN r1 ELSE ShapeErr

\* ShapeCheck<dim,TransposeExp>::Check on the operand's result: swap(s[0], s[1])
TransposeShape(r) ==
  IF r.err THEN r ELSE ShapeOk(Shape2(r.shape[0], r.shape[1]))

RECURSIVE ShapeCheck(_)
\* ShapeCheck<2,E>::Check(e)
ShapeCheck(e) ==
  IF e.k = "scalar" THEN ShapeOk(ScalarShape)
  ELSE IF e.k = "tensor" THEN ShapeOk(ten[e.t].shape)
  ELSE IF e.k = "transpose" THEN TransposeShape(ShapeCheck(e.exp))
  ELSE BinaryShape(ShapeCheck(e.lhs), ShapeCheck(e.rhs))

\* Plan<Tensor<Device,dim>>::Eval: dptr_[y * stride_ + x]; a read outside the
\* buffer yields an indeterminate value
TensorEval(t, y, x) ==
  IF (y * t.stride + x) \in DOMAIN t.dptr THEN t.dptr[y * t.stride + x] ELSE junk

\* the transpose plan evaluating its child at (x, x)
TransposeCoordTypo(y, x) == <<x, x>>

\* Plan<TransposeExp>::Eval: the coordinate handed to the child plan, (x, y)
TransposeCoord(y, x) == <<x, y>>

RECURSIVE PlanEval(_, _, _)
\* Plan<E>::Eval(y, x) of the plan MakePlan builds for e
PlanEval(e, y, x) ==
  IF e.k = "scalar" THEN e.scalar
  ELSE IF e.k = "tensor" THEN TensorEval(ten[e.t], y, x)
  ELSE IF e.k = "transpose"
       THEN PlanEval(e.exp, TransposeCoord(y, x)[1], TransposeCoord(y, x)[2])
  ELSE Map(e.op, PlanEval(e.lhs, y, x), PlanEval(e.rhs, y, x))

\* the destination buffer after the element-wise loop over dst's coordinates:
\* dst[y][x] = plan.Eval(y, x)
MapPlan(dst, e) ==
  [c \in DOMAIN dst.dptr |->
     IF c \in Cells(dst)
     THEN PlanEval(e, c \div dst.stride, c % dst.stride)
     ELSE dst.dptr[c]]

(***************************************************************************)
(* Engine: the element-wise assignment D = e                               *)
(***************************************************************************)
Scalars == {ScalarExp(v) : v \in 1..MaxVal}
Operands == {TensorExp("X"), TensorExp("Y")} \cup Scalars
BinaryExps == {BinaryMapExp(op, l, r) : op \in Ops, l \in Operands, r \in Operands}
\* rank-2 expressions put under Transpose
Rank2Exps == {TensorExp("X"), TransposeExp(TensorExp("X")),
              BinaryMapExp("mul", TensorExp("X"), TensorExp("Y")),
              BinaryMapExp("maximum", TensorExp("X"), ScalarExp(1))}
MapExps == Operands \cup BinaryExps
           \cup {TransposeExp(e) : e \in Rank2Exps}
           \cup {TransposeExp(TransposeExp(e)) : e \in Rank2Exps}

MapInit ==
  /\ \E xr \in 0..MaxExt, xc \in 0..MaxExt, xp \in 0..1,
        yr \in 0..MaxExt, yc \in 0..MaxExt, yb \in 0..MaxVal, dx \in BOOLEAN :
       ten = [t \in {"X", "Y", "D"} |->
                IF t = "X" THEN Matrix(xr, xc, xp, 1, 1)
                ELSE IF t = "Y" THEN Matrix(yr, yc, 0, yb, 1)
                ELSE IF dx THEN Matrix(xr, xc, 1, 5, 1) ELSE Matrix(yr, yc, 1, 5, 1)]
  /\ junk \in {0, MaxExt}
  /\ mexp = NoExp
  /\ mres = "none"
  /\ mprev = ten["D"].dptr

\* MapExp<SV,dim,E>(D, e) under the saveto policy: the shape check of e, the
\* check against D's shape, then the loop
MapExp(e) ==
  /\ mres = "none"
  /\ mexp' = e
  /\ mprev' = ten["D"].dptr
  /\ LET r == ShapeCheck(e) IN
       IF r.err
       THEN /\ mres' = "BinaryMapExp: shapes not the same"
            /\ ten' = ten
       ELSE IF ~(r.shape[0] = 0 \/ r.shape = ten["D"].shape)
       THEN /\ mres' = "Assignment: shape not consistent with target"
            /\ ten' = ten
       ELSE /\ mres' = "ok"
            /\ ten' = [ten EXCEPT !["D"].dptr = MapPlan(ten["D"], e)]

MapStep == \E e \in MapExps : MapExp(e)

(***************************************************************************)
(* Engine: the BLAS routines, column-major                                 *)
(***************************************************************************)
\* a read of cell c of a buffer; outside the buffer the value is indeterminate
Read(buf, c) == IF c \in DOMAIN buf THEN buf[c] ELSE junk

RECURSIVE SumTo(_, _)
\* f[0] + ... + f[k-1]
SumTo(f, k) == IF k <= 0 THEN 0 ELSE f[k - 1] + SumTo(f, k - 1)

\* BLASEngine<cpu>::gemm -> cblas_sgemm(CblasColMajor, ...):
\* C := alpha * op(A) * op(B) + beta * C, op(A) M x K, op(B) K x N, C M x N,
\* element (r, c) of a column-major matrix with leading dimension ld at r + c*ld
gemm(transa, transb, M, N, K, alpha, A, lda, B, ldb, beta, C, ldc) ==
  [c \in DOMAIN C |->
     LET r == c % ldc
         q == c \div ldc
     IN  IF r < M /\ q < N
         THEN alpha * SumTo([p \in 0..(K - 1) |->
                              (IF transa THEN Read(A, p + r * lda) ELSE Read(A, r + p * lda))
                              * (IF transb THEN Read(B, q + p * ldb) ELSE Read(B, p + q * ldb))],
                            K)
              + beta * C[c]
         ELSE C[c]]

\* BLASEngine<cpu>::gemv -> cblas_sgemv(CblasColMajor, ...):
\* y := alpha * op(A) * x + beta * y, A M x N
gemv(trans, M, N, alpha, A, lda, X, incX, beta, Y, incY) ==
  [c \in DOMAIN Y |->
     IF c % incY = 0 /\ (c \div incY) < (IF trans THEN N ELSE M)
     THEN LET r == c \div incY IN
          alpha * SumTo([p \in 0..((IF trans THEN M ELSE N) - 1) |->
                           (IF trans THEN Read(A, p + r * lda) ELSE Read(A, r + p * lda))
                           * Read(X, p * incX)],
                        IF trans THEN M ELSE N)
          + beta * Y[c]
     ELSE Y[c]]

\* BLASEngine<cpu>::ger -> cblas_sger(CblasColMajor, ...):
\* A := alpha * x * y' + A, A M x N
ger(M, N, alpha, X, incX, Y, incY, A, lda) ==
  [c \in DOMAIN A |->
     LET r == c % lda
         q == c \div lda
     IN  IF r < M /\ q < N
         THEN alpha * Read(X, r * incX) * Read(Y, q * incY) + A[c]
         ELSE A[c]]

(***************************************************************************)
(* Engine: DotEngine                                                       *)
(***************************************************************************)
\* the accumulation policies SV: saveto (dst = ...), plusto (dst += ...)
Savers == {"saveto", "plusto"}
kAlphaBLAS(sv) == 1
kBetaBLAS(sv) == IF sv = "saveto" THEN 0 ELSE 1

\* Tensor<xpu,1>::FlatTo2D: the vector as a matrix of one row
FlatTo2D(t) ==
  [dim |-> 2, shape |-> Shape2(1, t.shape[0]), stride |-> t.stride, dptr |-> t.dptr]

\* GetShape returning the shape as stored whatever the flag
GetShapeNoSwap(shape, transpose) == shape

\* GetShape: the shape with the two dimensions exchanged when transposed
GetShape(shape, transpose) ==
  IF transpose THEN Shape2(shape[0], shape[1]) ELSE shape

\* results of an Eval: the error raised (or "ok"), the destination buffer
\* afterwards, the BLAS routines called
Raised(msg, dst) == [res |-> msg, dptr |-> dst.dptr, blas |-> <<>>]
Done(buf, routine) == [res |-> "ok", dptr |-> buf, blas |-> <<routine>>]

\* the gemm call of the dot engine with lhs and rhs passed in lhs, rhs order
GemmArgsNotSwapped(dst, lhs, rhs, tl, tr, scale, sv) ==
  gemm(tl, tr,
       IF tr THEN rhs.shape[1] ELSE rhs.shape[0],
       IF tl THEN lhs.shape[0] ELSE lhs.shape[1],
       IF tr THEN rhs.shape[0] ELSE rhs.shape[1],
       scale * kAlphaBLAS(sv),
       lhs.dptr, lhs.stride,
       rhs.dptr, rhs.stride,
       kBetaBLAS(sv),
       dst.dptr, dst.stride)

\* the BLASEngine<xpu>::gemm call of DotEngine<SV,xpu,2,2,2,tl,tr>::Eval
GemmArgs(dst, lhs, rhs, tl, tr, scale, sv) ==
  gemm(tr, tl,
       IF tr THEN rhs.shape[1] ELSE rhs.shape[0],
       IF tl THEN lhs.shape[0] ELSE lhs.shape[1],
       IF tr THEN rhs.shape[0] ELSE rhs.shape[1],
       scale * kAlphaBLAS(sv),
       rhs.dptr, rhs.stride,
       lhs.dptr, lhs.stride,
       kBetaBLAS(sv),
       dst.dptr, dst.stride)

\* the gemm engine's shape assertion
GemmShapeOk(dst, lhs, rhs, tl, tr) ==
  LET sleft == GetShape(lhs.shape, tl)
      sright == GetShape(rhs.shape, tr)
  IN  dst.shape[1] = sleft[1] /\ dst.shape[0] = sright[0] /\ sleft[0] = sright[1]

\* the gemm engine calling gemm without looking at the shapes first
GemmEvalUnchecked(dst, lhs, rhs, tl, tr, scale, sv) ==
  [res |-> IF GemmShapeOk(dst, lhs, rhs, tl, tr) THEN "ok"
           ELSE "dot-gemm: matrix shape mismatch",
   dptr |-> GemmArgs(dst, lhs, rhs, tl, tr, scale, sv),
   blas |-> <<"gemm">>]

\* DotEngine<SV,xpu,2,2,2,transpose_left,transpose_right>::Eval
GemmEval(dst, lhs, rhs, tl, tr, scale, sv) ==
  IF ~GemmShapeOk(dst, lhs, rhs, tl, tr)
  THEN Raised("dot-gemm: matrix shape mismatch", dst)
  ELSE Done(GemmArgs(dst, lhs, rhs, tl, tr, scale, sv), "gemm")

\* DotEngine<SV,xpu,1,1,2,false,transpose_right>::Eval
GemvEval(dst, lhs, rhs, tr, scale, sv) ==
  LET sright == GetShape(rhs.shape, tr) IN
    IF ~(dst.shape[0] = sright[0] /\ lhs.shape[0] = sright[1])
    THEN Raised("dot-gemv: matrix shape mismatch", dst)
    ELSE Done(gemv(tr, rhs.shape[0], rhs.shape[1], scale * kAlphaBLAS(sv),
                   rhs.dptr, rhs.stride, lhs.dptr, 1, kBetaBLAS(sv), dst.dptr, 1),
              "gemv")

\* DotEngine<SV,xpu,2,1,1,true,false>::Eval
GerEval(dst, lhs, rhs, scale, sv) ==
  IF ~(dst.shape[1] = lhs.shape[0] /\ dst.shape[0] = rhs.shape[0])
  THEN Raised("dot-ger: matrix shape mismatch", dst)
  ELSE IF kBetaBLAS(sv) = 0
  THEN Done(ger(rhs.shape[0], lhs.shape[0], scale * kAlphaBLAS(sv),
                rhs.dptr, 1, lhs.dptr, 1, dst.dptr, dst.stride),
            "ger")
  ELSE GemmEval(dst, FlatTo2D(lhs), FlatTo2D(rhs), TRUE, FALSE, scale, sv)

NoCall == [engine |-> "none"]
Scales == {1, 2}
Extents == 1..MaxExt

\* operands and destination of dst = dot(lhs[.T], rhs[.T]), ranks (2,2,2)
GemmInit ==
  \E lr \in Extents, lc \in Extents, lp \in 0..1, lb \in 0..2,
     rr \in Extents, rc \in Extents, rp \in 0..1, rb \in 1..MaxVal,
     dr \in Extents, dc \in Extents, dz \in BOOLEAN :
    /\ lhsT = IF lb = 2 THEN Identity(lr, lp) ELSE Matrix(lr, lc, lp, lb, 1)
    /\ rhsT = Matrix(rr, rc, rp, rb, 1)
    /\ dstT = IF dz THEN Matrix(dr, dc, 1, 0, 0) ELSE Matrix(dr, dc, 1, 5, 1)

\* ranks (1,1,2): dst = dot(vector, matrix[.T])
GemvInit ==
  \E l \in Extents, lb \in 0..1, rr \in Extents, rc \in Extents, rp \in 0..1,
     d \in Extents, dz \in BOOLEAN :
    /\ lhsT = Vector(l, lb, 1)
    /\ rhsT = Matrix(rr, rc, rp, 2, 1)
    /\ dstT = IF dz THEN Vector(d, 0, 0) ELSE Vector(d, 5, 1)

\* ranks (2,1,1): dst = dot(vector.T, vector), the outer product
GerInit ==
  \E l \in Extents, lb \in 0..MaxVal, r \in Extents, rb \in 0..MaxVal,
     dr \in Extents, dc \in Extents, dp \in 0..1, dz \in BOOLEAN :
    /\ lhsT = Vector(l, lb, 1)
    /\ rhsT = Vector(r, rb, 1)
    /\ dstT = IF dz THEN Matrix(dr, dc, dp, 0, 0) ELSE Matrix(dr, dc, dp, 1, 0)

DotInit ==
  /\ (GemmInit \/ GemvInit \/ GerInit)
  /\ call = NoCall
  /\ dres = "none"
  /\ dprev = dstT.dptr
  /\ blas = <<>>

\* the state after an Eval that returned r
Returned(c, r) ==
  /\ dres = "none"
  /\ call' = c
  /\ dprev' = dstT.dptr
  /\ dres' = r.res
  /\ blas' = blas \o r.blas
  /\ dstT' = [dstT EXCEPT !.dptr = r.dptr]
  /\ UNCHANGED <<lhsT, rhsT>>

\* ExpComplexEngine::Eval -> DotEngine<SV,xpu,2,2,2,tl,tr>::Eval(dst, lhs, rhs, scale)
DotGemm(tl, tr, scale, sv) ==
  /\ dstT.dim = 2 /\ lhsT.dim = 2 /\ rhsT.dim = 2
  /\ Returned([engine |-> "gemm", ltrans |-> tl, rtrans |-> tr, scale |-> scale, sv |-> sv],
              GemmEval(dstT, lhsT, rhsT, tl, tr, scale, sv))

\* ExpComplexEngine::Eval -> DotEngine<SV,xpu,1,1,2,false,tr>::Eval
DotGemv(tr, scale, sv) ==
  /\ dstT.dim = 1 /\ lhsT.dim = 1 /\ rhsT.dim = 2
  /\ Returned([engine |-> "gemv", ltrans |-> FALSE, rtrans |-> tr, scale |-> scale, sv |-> sv],
              GemvEval(dstT, lhsT, rhsT, tr, scale, sv))

\* ExpComplexEngine::Eval -> DotEngine<SV,xpu,2,1,1,true,false>::Eval
DotGer(scale, sv) ==
  /\ dstT.dim = 2 /\ lhsT.dim = 1 /\ rhsT.dim = 1
  /\ Returned([engine |-> "ger", ltrans |-> TRUE, rtrans |-> FALSE, scale |-> scale, sv |-> sv],
              GerEval(dstT, lhsT, rhsT, scale, sv))

DotOff ==
  /\ lhsT = <<>> /\ rhsT = <<>> /\ dstT = <<>> /\ call = NoCall
  /\ dres = "off" /\ dprev = <<>> /\ blas = <<>>

(***************************************************************************)
(* Static type inference: ExpInfo<E>::kDim                                 *)
(***************************************************************************)
\* expression types: Tensor<Device,dim>, ScalarExp, a type ExpInfo is not
\* specialised for, and the node types over them
TensorType(d) == [k |-> "Tensor", dim |-> d]
ScalarType == [k |-> "ScalarExp"]
OtherType == [k |-> "other"]
TransposeType(e) == [k |-> "TransposeExp", exp |-> e]
UnaryType(e) == [k |-> "UnaryMapExp", src |-> e]
BinaryType(a, b) == [k |-> "BinaryMapExp", lhs |-> a, rhs |-> b]
MakeTensorType(e, d) == [k |-> "MakeTensorExp", src |-> e, dim |-> d]

\* the binary rule without the comparison of the two dimensions
BinaryDimNoCompare(kDimLhs, kDimRhs) ==
  IF kDimLhs >= 0 /\ kDimRhs >= 0
  THEN (IF kDimLhs = 0 THEN kDimRhs ELSE kDimLhs)
  ELSE -1

\* ExpInfo<BinaryMapExp<OP,TA,TB,etype>>::kDim from kDimLhs, kDimRhs
BinaryDim(kDimLhs, kDimRhs) ==
  IF kDimLhs >= 0 /\ kDimRhs >= 0
  THEN (IF kDimLhs = 0 THEN kDimRhs
        ELSE (IF kDimRhs = 0 \/ kDimLhs = kDimRhs THEN kDimLhs ELSE -1))
  ELSE -1

\* ExpInfo<MakeTensorExp<T,SrcExp,dim>>::kDim from kDimSrc
MakeTensorDim(kDimSrc, d) == IF kDimSrc >= 0 THEN d ELSE -1

RECURSIVE ExpInfo(_)
\* ExpInfo<E>::kDim
ExpInfo(e) ==
  IF e.k = "ScalarExp" THEN 0
  ELSE IF e.k = "Tensor" THEN e.dim
  ELSE IF e.k = "TransposeExp" THEN ExpInfo(e.exp)
  ELSE IF e.k = "UnaryMapExp" THEN ExpInfo(e.src)
  ELSE IF e.k = "MakeTensorExp" THEN MakeTensorDim(ExpInfo(e.src), e.dim)
  ELSE IF e.k = "BinaryMapExp" THEN BinaryDim(ExpInfo(e.lhs), ExpInfo(e.rhs))
  ELSE -1

RECURSIVE Nesting(_)
\* how deep the type is nested
Nesting(e) ==
  IF e.k \in {"TransposeExp"} THEN 1 + Nesting(e.exp)
  ELSE IF e.k \in {"UnaryMapExp", "MakeTensorExp"} THEN 1 + Nesting(e.src)
  ELSE IF e.k = "BinaryMapExp"
       THEN 1 + (IF Nesting(e.lhs) > Nesting(e.rhs) THEN Nesting(e.lhs) ELSE Nesting(e.rhs))
  ELSE 0

LeafTypes == {TensorType(d) : d \in 1..MaxDim} \cup {ScalarType, OtherType}

InfoInit ==
  /\ etype \in LeafTypes
  /\ kDim = ExpInfo(etype)

\* the compiler instantiates ExpInfo for the type t built over etype
Instantiate(t) ==
  /\ Nesting(etype) < MaxNest
  /\ etype' = t
  /\ kDim' = ExpInfo(t)

InfoTranspose == Instantiate(TransposeType(etype))
InfoUnary == Instantiate(UnaryType(etype))
InfoMakeTensor == \E d \in 1..MaxDim : Instantiate(MakeTensorType(etype, d))
InfoBinaryLhs == \E t \in LeafTypes : Instantiate(BinaryType(etype, t))
InfoBinaryRhs == \E t \in LeafTypes : Instantiate(BinaryType(t, etype))

InfoOff == etype = OtherType /\ kDim = -1

MapOff ==
  /\ ten = <<>> /\ mexp = NoExp /\ mres = "off" /\ mprev = <<>>

(***************************************************************************)
(* Specifications                                                          *)
(***************************************************************************)
vars == <<vecVars, mapVars, dotVars, infoVars, junk>>
notVec == <<mapVars, dotVars, infoVars, junk>>
notMap == <<vecVars, dotVars, infoVars, junk>>
notDot == <<vecVars, mapVars, infoVars, junk>>
notInfo == <<vecVars, mapVars, dotVars, junk>>

\* the example program
InitVec == VecInit /\ MapOff /\ DotOff /\ InfoOff /\ junk = 0
NextVec ==
  \/ (\E e \in Exps : Assign(e)) /\ UNCHANGED notVec
  \/ Reassign /\ UNCHANGED notVec
  \/ LoopBody /\ UNCHANGED notVec
  \/ LoopExit /\ UNCHANGED notVec
SpecVec == InitVec /\ [][NextVec]_vars

\* the example program with its loop running on: operator= is straight-line
\* code, so an entered loop takes its next step
SpecVecFair ==
  /\ SpecVec
  /\ WF_vars(LoopBody /\ UNCHANGED notVec)
  /\ WF_vars(LoopExit /\ UNCHANGED notVec)

\* element-wise assignments of the engine
InitMap == MapInit /\ VecOff /\ DotOff /\ InfoOff
NextMap == MapStep /\ UNCHANGED notMap
SpecMap == InitMap /\ [][NextMap]_vars

\* dot expressions of the engine
InitDot == DotInit /\ VecOff /\ MapOff /\ InfoOff /\ junk \in {0, MaxExt}
NextDot ==
  \/ (\E tl \in BOOLEAN, tr \in BOOLEAN, sc \in Scales, sv \in Savers : DotGemm(tl, tr, sc, sv))
       /\ UNCHANGED notDot
  \/ (\E tr \in BOOLEAN, sc \in Scales, sv \in Savers : DotGemv(tr, sc, sv))
       /\ UNCHANGED notDot
  \/ (\E sc \in Scales, sv \in Savers : DotGer(sc, sv))
       /\ UNCHANGED notDot
SpecDot == InitDot /\ [][NextDot]_vars

\* an assignment on either path: the example's loop or a dot expression
InitAssign ==
  \/ VecInit /\ MapOff /\ DotOff /\ InfoOff /\ junk = 0
  \/ DotInit /\ VecOff /\ MapOff /\ InfoOff /\ junk \in {0, MaxExt}
NextAssign ==
  \/ (\E e \in Exps : Assign(e)) /\ UNCHANGED notVec
  \/ Reassign /\ UNCHANGED notVec
  \/ LoopBody /\ UNCHANGED notVec
  \/ LoopExit /\ UNCHANGED notVec
  \/ dres = "none" /\ (\E tl \in BOOLEAN, tr \in BOOLEAN, sc \in Scales, sv \in Savers : DotGemm(tl, tr, sc, sv))
       /\ UNCHANGED notDot
  \/ dres = "none" /\ (\E tr \in BOOLEAN, sc \in Scales, sv \in Savers : DotGemv(tr, sc, sv))
       /\ UNCHANGED notDot
  \/ dres = "none" /\ (\E sc \in Scales, sv \in Savers : DotGer(sc, sv))
       /\ UNCHANGED notDot
SpecAssign == InitAssign /\ [][NextAssign]_vars

\* static type inference over expression types
InitInfo == InfoInit /\ VecOff /\ MapOff /\ DotOff /\ junk = 0
NextInfo ==
  \/ InfoTranspose /\ UNCHANGED notInfo
  \/ InfoUnary /\ UNCHANGED notInfo
  \/ InfoMakeTensor /\ UNCHANGED notInfo
  \/ InfoBinaryLhs /\ UNCHANGED notInfo
  \/ InfoBinaryRhs /\ UNCHANGED notInfo
SpecInfo == InitInfo /\ [][NextInfo]_vars

(***************************************************************************)
(* Claims about the example program                                        *)
(***************************************************************************)
\* the assignment A = src has returned and src does not read A
FinishedNoAlias == pc = "done" /\ "A" \notin Leaves(src)

RECURSIVE TreeValue(_, _)
\* the operators of the tree e applied to the operand values at coordinate ix
TreeValue(e, ix) ==
  IF e.k = "vec" THEN dptr[e.v][ix]
  ELSE LET a == TreeValue(e.lhs, ix)
           b == TreeValue(e.rhs, ix)
       IN  IF e.op = "mul" THEN a * b ELSE IF a >= b THEN a ELSE b

\* C1: when the assignment dst = expr has finished and no operand is the
\* destination, every destination coordinate holds the value of the tree's
\* operators applied to the operand values at that coordinate; for one binary
\* node that is op(lhs[i], rhs[i]); main's B * max(C, B) gives [6, 12, 20].
C1_ElementwiseValue ==
  FinishedNoAlias =>
    /\ \A ix \in 0..(len - 1) : dptr["A"][ix] = TreeValue(src, ix)
    /\ (src.k = "bin" /\ src.lhs.k = "vec" /\ src.rhs.k = "vec" /\ src.op = "mul") =>
         \A ix \in 0..(len - 1) :
           dptr["A"][ix] = dptr[src.lhs.v][ix] * dptr[src.rhs.v][ix]
    /\ (src = MainExp /\ len = n /\ dptr["B"] = Ramp(n, 2, 1) /\ dptr["C"] = Ramp(n, 3, 1)) =>
         dptr["A"] = (0 :> 6) @@ (1 :> 12) @@ (2 :> 20)

\* C1 witness: main has run A = B * max(C, B) to the end
C1_Witness ==
  /\ pc = "done" /\ src = MainExp /\ len = n
  /\ dptr["B"] = Ramp(n, 2, 1) /\ dptr["C"] = Ramp(n, 3, 1)
  /\ dptr["A"] = (0 :> 6) @@ (1 :> 12) @@ (2 :> 20)

\* C10: when dst = expr is run a second time with the operands unchanged and
\* no operand is the destination, the destination ends with the contents it
\* had after the first run.
C10_Idempotent ==
  (FinishedNoAlias /\ runs >= 2) => dptr["A"] = prev

\* C10 witness: a second run of a binary expression over B and C has finished
\* and the first run had changed the destination
C10_Witness ==
  /\ FinishedNoAlias /\ runs = 2 /\ src.k = "bin" /\ len > 0
  /\ dptr["A"] = prev
  /\ \E ix \in 0..(len - 1) : dptr["A"][ix] > 1

(***************************************************************************)
(* Claims about the element-wise engine                                    *)
(***************************************************************************)
\* the assigned expression is one binary node over the two tensors e.lhs, e.rhs
BinaryOfTensors(e) == e.k = "bin" /\ e.lhs.k = "tensor" /\ e.rhs.k = "tensor"

\* the assigned expression is one binary node over a tensor and a scalar
TensorAndScalar(e) ==
  /\ e.k = "bin"
  /\ \/ e.lhs.k = "tensor" /\ e.rhs.k = "scalar"
     \/ e.lhs.k = "scalar" /\ e.rhs.k = "tensor"

\* C2: a binary map over two tensors whose shapes differ in an axis raises
\* the shape-mismatch error of the binary shape check and leaves the
\* destination buffer as it was, for all shapes, extents of 0 included.
C2_MismatchRaises ==
  (BinaryOfTensors(mexp) /\ ten[mexp.lhs.t].shape # ten[mexp.rhs.t].shape) =>
    /\ mres = "BinaryMapExp: shapes not the same"
    /\ ten["D"].dptr = mprev

\* C2, the part the code keeps: the error is raised and the destination kept
\* when neither tensor has extent 0 in its lowest dimension.
C2_NonEmptyMismatchRaises ==
  (/\ BinaryOfTensors(mexp)
   /\ ten[mexp.lhs.t].shape # ten[mexp.rhs.t].shape
   /\ ten[mexp.lhs.t].shape[0] # 0 /\ ten[mexp.rhs.t].shape[0] # 0) =>
    /\ mres = "BinaryMapExp: shapes not the same"
    /\ ten["D"].dptr = mprev

\* C7: for a binary map of a tensor A and a scalar, in either order, the
\* derived shape is A's shape, no mismatch error is raised, and after
\* dst = A * scalar every coordinate of dst holds A's cell times the scalar.
C7_ScalarBroadcast ==
  TensorAndScalar(mexp) =>
    LET a == IF mexp.lhs.k = "tensor" THEN ten[mexp.lhs.t] ELSE ten[mexp.rhs.t]
        v == IF mexp.lhs.k = "scalar" THEN mexp.lhs.scalar ELSE mexp.rhs.scalar
        d == ten["D"]
    IN  /\ ShapeCheck(mexp) = ShapeOk(a.shape)
        /\ mres # "BinaryMapExp: shapes not the same"
        /\ (mres = "ok" /\ mexp.op = "mul") =>
             /\ d.shape = a.shape
             /\ \A y \in 0..(d.shape[1] - 1), x \in 0..(d.shape[0] - 1) :
                  d.dptr[y * d.stride + x] = a.dptr[y * a.stride + x] * v

\* C7, the part the code keeps: the same statement for a tensor A whose
\* lowest dimension is not 0.
C7_NonEmptyScalarBroadcast ==
  (/\ TensorAndScalar(mexp)
   /\ (IF mexp.lhs.k = "tensor" THEN ten[mexp.lhs.t] ELSE ten[mexp.rhs.t]).shape[0] # 0)
  => C7_ScalarBroadcast

\* what the assignment D = e does to a destination holding buffer b:
\* the outcome and the buffer afterwards
Assigned(e, b) ==
  LET r == ShapeCheck(e) IN
    IF r.err THEN <<"BinaryMapExp: shapes not the same", b>>
    ELSE IF ~(r.shape[0] = 0 \/ r.shape = ten["D"].shape)
    THEN <<"Assignment: shape not consistent with target", b>>
    ELSE <<"ok", MapPlan([ten["D"] EXCEPT !.dptr = b], e)>>

\* C8: for a rank-2 expression A, Transpose(Transpose(A)) derives the shape A
\* derives, its plan evaluates at every coordinate (y, x) to what A's plan
\* evaluates to, and assigning it leaves the destination as assigning A does.
C8_TransposeTwice ==
  (mexp.k = "transpose" /\ mexp.exp.k = "transpose") =>
    LET a == mexp.exp.exp IN
      /\ ShapeCheck(mexp) = ShapeCheck(a)
      /\ \A y \in 0..MaxExt, x \in 0..MaxExt : PlanEval(mexp, y, x) = PlanEval(a, y, x)
      /\ <<mres, ten["D"].dptr>> = Assigned(a, mprev)

\* C8 witness: Transpose(Transpose(X)) of a 1 x 2 matrix X has been assigned
\* and the destination holds X's cells
C8_Witness ==
  /\ mexp = TransposeExp(TransposeExp(TensorExp("X")))
  /\ mres = "ok"
  /\ ten["X"].shape = Shape2(1, 2)
  /\ \A x \in 0..1 : ten["D"].dptr[x] = ten["X"].dptr[x]
  /\ ten["D"].dptr # mprev

(***************************************************************************)
(* Claims about the dot engine                                             *)
(* Matrices are read row-major here: cell (y, x) is row y, column x.       *)
(***************************************************************************)
\* cell (y, x) of matrix t, and of the buffer b laid out like t
At(t, y, x) == t.dptr[y * t.stride + x]

\* rows and columns of t with the transpose flag applied
EffRows(t, tr) == IF tr THEN t.shape[0] ELSE t.shape[1]
EffCols(t, tr) == IF tr THEN t.shape[1] ELSE t.shape[0]

\* cell (y, x) of op(t)
OpAt(t, tr, y, x) == IF tr THEN At(t, x, y) ELSE At(t, y, x)

\* the triple-loop product: sum over p of opL(L)[y][p] * opR(R)[p][x]
RefProduct(y, x) ==
  SumTo([p \in 0..(EffCols(lhsT, call.ltrans) - 1) |->
           OpAt(lhsT, call.ltrans, y, p) * OpAt(rhsT, call.rtrans, p, x)],
        EffCols(lhsT, call.ltrans))

\* a gemm, gemv or ger engine call has returned normally under SV = saveto
\* (alpha = 1, beta = 0) with scale = 1
OverwriteCall(engine) ==
  /\ call.engine = engine /\ dres = "ok"
  /\ call.sv = "saveto" /\ call.scale = 1

\* C3: for every combination of the transpose flags, the gemm engine with
\* alpha = 1, beta = 0, scale = 1 leaves in the row-major destination the
\* triple-loop product of op(L) and op(R), pads untouched; with L the
\* identity and R not transposed the destination equals R.
C3_GemmIsProduct ==
  OverwriteCall("gemm") =>
    /\ \A y \in 0..(dstT.shape[1] - 1), x \in 0..(dstT.shape[0] - 1) :
         At(dstT, y, x) = RefProduct(y, x)
    /\ \A c \in DOMAIN dstT.dptr : c \notin Cells(dstT) => dstT.dptr[c] = dprev[c]
    /\ (lhsT = Identity(lhsT.shape[0], lhsT.stride - lhsT.shape[0]) /\ ~call.rtrans) =>
         \A y \in 0..(dstT.shape[1] - 1), x \in 0..(dstT.shape[0] - 1) :
           At(dstT, y, x) = At(rhsT, y, x)

\* C3 witness: a product with both operands transposed, L stored 1 x 2 and
\* the destination 2 x 2, has been written
C3_Witness ==
  /\ OverwriteCall("gemm") /\ call.ltrans /\ call.rtrans
  /\ lhsT.shape = Shape2(1, 2) /\ dstT.shape = Shape2(2, 2)
  /\ dstT.dptr # dprev

\* C4: after the outer-product engine under the overwrite policy (beta = 0,
\* alpha = 1, scale = 1) dst[i][j] = X[i] * Y[j] for all i, j, whatever the
\* destination held before.
C4_OuterProductOverwrites ==
  OverwriteCall("ger") =>
    \A y \in 0..(dstT.shape[1] - 1), x \in 0..(dstT.shape[0] - 1) :
      At(dstT, y, x) = lhsT.dptr[y] * rhsT.dptr[x]

\* C4, the part the code keeps: the same when the destination held zeros.
C4_OuterProductOnZeros ==
  (OverwriteCall("ger") /\ \A c \in DOMAIN dprev : dprev[c] = 0) =>
    \A y \in 0..(dstT.shape[1] - 1), x \in 0..(dstT.shape[0] - 1) :
      At(dstT, y, x) = lhsT.dptr[y] * rhsT.dptr[x]

\* C5 as amended: the gemm engine accepts exactly when destination rows =
\* left's effective rows, destination columns = right's effective columns and
\* left's effective columns = right's effective rows; otherwise it fails with
\* "dot-gemm: matrix shape mismatch".
C5_GemmShapeRule ==
  call.engine = "gemm" =>
    /\ dres = "ok" <=>
         /\ dstT.shape[1] = EffRows(lhsT, call.ltrans)
         /\ dstT.shape[0] = EffCols(rhsT, call.rtrans)
         /\ EffCols(lhsT, call.ltrans) = EffRows(rhsT, call.rtrans)
    /\ dres # "ok" => dres = "dot-gemm: matrix shape mismatch"

\* C5 witness: a transposed left operand stored 2 x 1 (effective 1 x 2) is
\* accepted with a destination of 1 row
C5_Witness ==
  /\ call.engine = "gemm" /\ dres = "ok" /\ call.ltrans
  /\ lhsT.shape = Shape2(2, 1) /\ dstT.shape = Shape2(1, 2)

\* C5 as stated: the gemm engine accepts exactly when destination rows =
\* left's effective columns, destination columns = right's effective rows and
\* left's effective columns = right's effective rows.
C5_OriginalShapeRule ==
  call.engine = "gemm" =>
    (dres = "ok" <=>
       /\ dstT.shape[1] = EffCols(lhsT, call.ltrans)
       /\ dstT.shape[0] = EffRows(rhsT, call.rtrans)
       /\ EffCols(lhsT, call.ltrans) = EffRows(rhsT, call.rtrans))

\* C6: in the gemm, gemv and outer-product engines (ger branch and gemm
\* fallback), when the shape check fails no BLAS routine has been called and
\* the destination buffer is what it was before the call.
C6_ErrorBeforeBlas ==
  dres \in {"dot-gemm: matrix shape mismatch", "dot-gemv: matrix shape mismatch",
            "dot-ger: matrix shape mismatch"} =>
    /\ blas = <<>>
    /\ dstT.dptr = dprev

\* C6 witness: the outer-product engine under plusto (the gemm fallback) has
\* failed its shape check on a destination holding non-zero cells
C6_Witness ==
  /\ call.engine = "ger" /\ call.sv = "plusto"
  /\ dres = "dot-ger: matrix shape mismatch"
  /\ blas = <<>> /\ dstT.dptr = dprev
  /\ \E c \in DOMAIN dprev : dprev[c] # 0

(***************************************************************************)
(* Claims about static type inference                                      *)
(***************************************************************************)
\* the binary dimension rule in the words of the specification
RuleDim(l, r) == IF l = 0 THEN r ELSE IF r = 0 THEN l ELSE IF l = r THEN l ELSE -1

RECURSIVE HasMismatch(_)
\* some operand of the node e, at any depth under unary, binary and transpose
\* nodes, has the mismatch sentinel as its Dim
HasMismatch(e) ==
  \/ e.k = "TransposeExp" /\ (ExpInfo(e.exp) = -1 \/ HasMismatch(e.exp))
  \/ e.k = "UnaryMapExp" /\ (ExpInfo(e.src) = -1 \/ HasMismatch(e.src))
  \/ e.k = "BinaryMapExp" /\ (ExpInfo(e.lhs) = -1 \/ ExpInfo(e.rhs) = -1
                               \/ HasMismatch(e.lhs) \/ HasMismatch(e.rhs))

\* C9: the Dim of a binary node is the other operand's Dim when one operand's
\* Dim is 0, else the common Dim when the two are equal, else the mismatch
\* sentinel -1; the rule is symmetric; a mismatch sentinel in an operand is
\* the Dim of every enclosing unary, binary and transpose node.
C9_BinaryDimRule ==
  /\ etype.k = "BinaryMapExp" =>
       /\ kDim = RuleDim(ExpInfo(etype.lhs), ExpInfo(etype.rhs))
       /\ kDim = ExpInfo(BinaryType(etype.rhs, etype.lhs))
  /\ HasMismatch(etype) => kDim = -1

\* C9 witness: a binary node over a scalar and a binary node of mismatching
\* tensors has Dim -1
C9_Witness ==
  /\ etype = BinaryType(ScalarType, BinaryType(TensorType(1), TensorType(2)))
  /\ kDim = -1

(***************************************************************************)
(* Claims about what an assignment leaves alone                            *)
(***************************************************************************)
\* the operand vectors of the example that are not the destination
OperandVecs == DOMAIN dptr \ {"A"}

\* C11: no step of an assignment changes an operand that is not the
\* destination: in the element-wise loop every cell of B and of C and the
\* common length stay as they were, and in the dot engines the left and the
\* right operand (shape, stride and every cell) stay as they were.
C11_OperandsUnchanged ==
  [][/\ DOMAIN dptr' = DOMAIN dptr
     /\ \A v \in OperandVecs : dptr'[v] = dptr[v]
     /\ len' = len
     /\ lhsT' = lhsT
     /\ rhsT' = rhsT]_vars

\* a matrix product has overwritten its destination
C11_Witness ==
  /\ OverwriteCall("gemm") /\ ~call.ltrans /\ ~call.rtrans
  /\ dres = "ok"
  /\ dstT.dptr # dprev
  /\ lhsT.shape = Shape2(2, 2) /\ rhsT.shape = Shape2(2, 2)
  /\ dstT.dptr # lhsT.dptr /\ dstT.dptr # rhsT.dptr

(***************************************************************************)
(* Claims about the pass of the element-wise loop                          *)
(***************************************************************************)
\* the indices 0, 1, ..., l - 1 in increasing order
InOrder(l) == [k \in 1..l |-> k - 1]

\* a step of the running assignment has stored into the destination
Stored == Len(wlog') = Len(wlog) + 1

\* C12: an entered loop finishes, and when it has finished the stores of the
\* assignment were to the indices 0, 1, ..., len - 1, one store each in one
\* pass (none skipped, none repeated, none outside), whatever the depth of
\* the expression; each store puts the value of the expression's operators
\* at that index into the cell of that index and changes no other cell.
C12_OnePassTerminates ==
  /\ [](pc = "done" => wlog = InOrder(len))
  /\ [][Stored =>
         LET w == wlog'[Len(wlog')] IN
           /\ w \in 0..(len - 1)
           /\ dptr'["A"][w] = TreeValue(src, w)
           /\ \A ix \in (0..(len - 1)) \ {w} : dptr'["A"][ix] = dptr["A"][ix]]_vars
  /\ (pc = "loop") ~> (pc = "done")

\* a nested expression has been assigned over more than one cell
C12_Witness ==
  /\ pc = "done"
  /\ src \in NestedExps
  /\ len > 1
  /\ wlog = InOrder(len)
  /\ dptr["A"] # prev

(***************************************************************************)
(* Claims about a destination that is also an operand                      *)
(***************************************************************************)
\* the vectors as they were when the running assignment began: A as it was
\* then, the other vectors as they are
Snapshot == [dptr EXCEPT !["A"] = prev]

RECURSIVE SnapshotValue(_, _)
\* the operators of the tree e applied to the snapshot at coordinate ix
SnapshotValue(e, ix) ==
  IF e.k = "vec" THEN Snapshot[e.v][ix]
  ELSE LET a == SnapshotValue(e.lhs, ix)
           b == SnapshotValue(e.rhs, ix)
       IN  IF e.op = "mul" THEN a * b ELSE IF a >= b THEN a ELSE b

FinishedAlias == pc = "done" /\ "A" \in Leaves(src)

\* C13: when an assignment whose expression reads the destination (such as
\* A = A * max(C, A)) has finished, every destination cell holds the value
\* the expression has at that coordinate on the operands as they were before
\* the assignment began.
C13_AliasedAsSnapshot ==
  FinishedAlias =>
    \A ix \in 0..(len - 1) : dptr["A"][ix] = SnapshotValue(src, ix)

\* A = A * max(C, A) has finished over more than one cell and changed A
C13_Witness ==
  /\ pc = "done"
  /\ src = F("mul", VecExp("A"), F("maximum", VecExp("C"), VecExp("A")))
  /\ len > 1
  /\ dptr["A"] # prev
  /\ \E ix \in 1..(len - 1) : prev[ix] # prev[ix - 1]

====
